---------------------------- MODULE Spec2Model ----------------------------
(***************************************************************************)
(* A model of pybps.py: the BPS patch interpreter (_patch), its variable-  *)
(* length integer decoder (_decode_number), the checksum cursor            *)
(* (_ReadState) and the buffered copy (_buffered_copy).                    *)
(*                                                                         *)
(* Files are sequences of bytes (0..255).  A 32-bit CRC value is kept as   *)
(* its four little-endian bytes <<b0, b1, b2, b3>>, which is also the form *)
(* in which the patch trailer stores it.                                   *)
(***************************************************************************)
EXTENDS Integers, Sequences, FiniteSets, TLC

(***************************************************************************)
(* Program constants.                                                      *)
(***************************************************************************)
MAGIC == <<66, 80, 83, 49>>          \* b'BPS1'
_BUFFER_SIZE == 8192
TRAILER_SIZE == 12                   \* patch_end = patch_size - 12
BULK_MARGIN == 8                     \* state.target.position - 8 > target_rel_offset

(***************************************************************************)
(* Bounds of the model.                                                    *)
(***************************************************************************)
MaxN == 16700        \* _decode_number is run on the encoding of every n in 0..MaxN
MaxInstrs == 2       \* instruction sequences of up to MaxInstrs instructions
MaxSourceLen == 5    \* source files of 0..MaxSourceLen bytes
MaxDeclared == 3     \* declared source_size / target_size of 0..MaxDeclared

Min(a, b) == IF a < b THEN a ELSE b

(***************************************************************************)
(* Byte streams.  read(n) on a file at offset pos returns the bytes        *)
(* pos .. pos+n-1 that exist, fewer (or none) at the end of the file.      *)
(***************************************************************************)
ReadAt(file, pos, n) ==
    IF pos >= Len(file) \/ n <= 0 THEN <<>>
    ELSE SubSeq(file, pos + 1, Min(pos + n, Len(file)))

(***************************************************************************)
(* zlib.crc32(data, value) & 0xffffffff, on four little-endian bytes.      *)
(***************************************************************************)
\* p[1] ^ p[2], bit by bit from the low end
Xor8Of[p \in Nat \X Nat] ==
    IF p[1] = 0 THEN p[2]
    ELSE IF p[2] = 0 THEN p[1]
    ELSE ((p[1] + p[2]) % 2) + 2 * Xor8Of[<<p[1] \div 2, p[2] \div 2>>]

\* a ^ b for all pairs of bytes, computed once
XorTable == [a \in 0..255 |-> [b \in 0..255 |-> Xor8Of[<<a, b>>]]]

Xor8(a, b) == XorTable[a][b]

Xor32(x, y) == <<Xor8(x[1], y[1]), Xor8(x[2], y[2]), Xor8(x[3], y[3]), Xor8(x[4], y[4])>>
Not32(x) == <<255 - x[1], 255 - x[2], 255 - x[3], 255 - x[4]>>
Shr1(x) == << (x[1] \div 2) + 128 * (x[2] % 2), (x[2] \div 2) + 128 * (x[3] % 2),
              (x[3] \div 2) + 128 * (x[4] % 2), x[4] \div 2 >>
Shr8(x) == <<x[2], x[3], x[4], 0>>
CRC_POLY == <<32, 131, 184, 237>>    \* 0xEDB88320, reflected CRC-32 polynomial

RECURSIVE CrcShift(_, _)
CrcShift(v, k) ==
    IF k = 0 THEN v
    ELSE CrcShift(IF v[1] % 2 = 1 THEN Xor32(Shr1(v), CRC_POLY) ELSE Shr1(v), k - 1)

CrcTable == [i \in 0..255 |-> CrcShift(<<i, 0, 0, 0>>, 8)]

Byte == 0..255
Word32 == Byte \X Byte \X Byte \X Byte

\* one byte b folded into a running value crc: pre- and post-inverted, table driven
CrcByte(crc, b) ==
    LET x == Not32(crc)
    IN  Not32(Xor32(CrcTable[Xor8(x[1], b)], Shr8(x)))

\* zlib.crc32(d[1], d[2]): the bytes d[1] folded in order into the running value
\* d[2]; a = <<index of the next byte, running value>>
Crc32Of[d \in Seq(Byte) \X Word32] ==
    LET from[a \in Nat \X Word32] ==
            IF a[1] > Len(d[1]) THEN a[2]
            ELSE from[<<a[1] + 1, CrcByte(a[2], d[1][a[1]])>>]
    IN  from[<<1, d[2]>>]

crc32(data, value) == Crc32Of[<<data, value>>]

ZERO32 == <<0, 0, 0, 0>>

\* int.from_bytes(b, 'little', signed=False) of up to 4 bytes: missing high bytes are 0
FromBytesLE(b) == [i \in 1..4 |-> IF i <= Len(b) THEN b[i] ELSE 0]

(***************************************************************************)
(* _ReadState: position and running checksum of a wrapped stream.          *)
(***************************************************************************)
NewReadState == [position |-> 0, checksum |-> ZERO32]

\* the state after read(n) returned, or write(data) was given, the bytes `data`
Fold(st, data) ==
    [position |-> st.position + Len(data), checksum |-> crc32(data, st.checksum)]

(***************************************************************************)
(* _decode_number on a stream whose next unread byte is at offset pos.     *)
(* ok = FALSE: input.read(1) returned b'' and indexing it raised           *)
(* IndexError; by then every byte up to the end of the stream was read.    *)
(***************************************************************************)
RECURSIVE DecodeLoop(_, _, _, _)
DecodeLoop(stream, pos, data, shift) ==
    IF pos >= Len(stream)
    THEN [ok |-> FALSE, value |-> data, pos |-> pos]
    ELSE LET x == stream[pos + 1]
             d == data + (x % 128) * shift
         IN  IF x >= 128
             THEN [ok |-> TRUE, value |-> d, pos |-> pos + 1]
             ELSE DecodeLoop(stream, pos + 1, d + shift * 128, shift * 128)

\* mutant: the cumulative-scale bias (data += shift) is left out
RECURSIVE DecodeLoopNoBias(_, _, _, _)
DecodeLoopNoBias(stream, pos, data, shift) ==
    IF pos >= Len(stream)
    THEN [ok |-> FALSE, value |-> data, pos |-> pos]
    ELSE LET x == stream[pos + 1]
             d == data + (x % 128) * shift
         IN  IF x >= 128
             THEN [ok |-> TRUE, value |-> d, pos |-> pos + 1]
             ELSE DecodeLoopNoBias(stream, pos + 1, d, shift * 128)

Mut_decode_number_NoBias(stream, pos) == DecodeLoopNoBias(stream, pos, 0, 1)

_decode_number(stream, pos) == DecodeLoop(stream, pos, 0, 1)

(***************************************************************************)
(* The format's encoder of a number (the decoder's external counterpart):  *)
(* 7 data bits per byte, the high bit on the last byte only, and one       *)
(* subtracted from the remaining value at every continuation.              *)
(***************************************************************************)
RECURSIVE EncodeNumber(_)
EncodeNumber(n) ==
    IF n \div 128 = 0 THEN <<128 + (n % 128)>>
    ELSE <<n % 128>> \o EncodeNumber((n \div 128) - 1)

(***************************************************************************)
(* _buffered_copy(source, target, length, buffer_size).  The stream read   *)
(* is the file `file` at offset pos, or, with self = TRUE, the target file *)
(* itself (its contents as written so far) through the handle target_rel.  *)
(* Returns the target file and the read offset after the copy.             *)
(***************************************************************************)
_buffered_copy(file, pos, tgt, length, buffer_size, self) ==
    LET \* a = <<read offset, target file, length still to copy>>
        copy[a \in Nat \X Seq(Byte) \X Int] ==
            IF a[3] > 0
            THEN LET buffer == ReadAt(IF self THEN a[2] ELSE file, a[1],
                                      Min(a[3], buffer_size))
                 IN  copy[<<a[1] + Len(buffer), a[2] \o buffer, a[3] - buffer_size>>]
            ELSE [target |-> a[2], pos |-> a[1]]
    IN  copy[<<pos, tgt, length>>]

\* for _ in range(length): state.target.write(target_rel.read(1))
\* a = <<read offset, target file, iterations left>>
ByteLoop[a \in Nat \X Seq(Byte) \X Nat] ==
    IF a[3] > 0
    THEN LET b == ReadAt(a[2], a[1], 1)
         IN  ByteLoop[<<a[1] + Len(b), a[2] \o b, a[3] - 1>>]
    ELSE [target |-> a[2], pos |-> a[1]]

ByteByByte(pos, tgt, n) == ByteLoop[<<pos, tgt, n>>]

\* mutant: the whole range is read in one call before anything is written
MutTargetCopyOneRead(tgt, w, offset, length) ==
    LET buffer == ReadAt(tgt, offset, length)
    IN  [target |-> tgt \o buffer, pos |-> offset + Len(buffer)]

\* the TargetCopy body after the seek: w is state.target.position, offset is
\* target_rel_offset (target_rel_base is 0, so it is also target_rel.tell())
TargetCopyBody(tgt, w, offset, length) ==
    IF w - BULK_MARGIN > offset
    THEN _buffered_copy(<<>>, offset, tgt, length, Min(w - offset, _BUFFER_SIZE), TRUE)
    ELSE ByteByByte(offset, tgt, length)

\* The reads a copy of the target into itself makes, one record per read() call:
\* the offset read at, the size asked for, the number of bytes returned and the
\* target write position when the call was made.  buffer_size bytes are asked for
\* at a time, as in _buffered_copy; the byte-by-byte loop of lines 173-174 is the
\* same loop with one byte asked for at a time.
\* a = <<read offset, target file, length still to copy, reads so far>>
ReadRecords == Seq([offset : Nat, size : Nat, got : Nat, wpos : Nat])

SelfCopyReads(tgt, offset, length, buffer_size) ==
    LET copy[a \in Nat \X Seq(Byte) \X Int \X ReadRecords] ==
            IF a[3] > 0
            THEN LET size == Min(a[3], buffer_size)
                     buffer == ReadAt(a[2], a[1], size)
                 IN  copy[<<a[1] + Len(buffer), a[2] \o buffer, a[3] - buffer_size,
                            Append(a[4], [offset |-> a[1], size |-> size,
                                          got |-> Len(buffer), wpos |-> Len(a[2])])>>]
            ELSE [target |-> a[2], pos |-> a[1], reads |-> a[4]]
    IN  copy[<<offset, tgt, length, <<>>>>]

\* mutant: the bulk path asks for whole buffers of _BUFFER_SIZE
MutTargetCopyLogWholeBuffer(tgt, w, offset, length) ==
    SelfCopyReads(tgt, offset, length, IF w - BULK_MARGIN > offset THEN _BUFFER_SIZE ELSE 1)

\* the TargetCopy body after the seek (lines 168-174), with its reads
TargetCopyLog(tgt, w, offset, length) ==
    SelfCopyReads(tgt, offset, length,
                  IF w - BULK_MARGIN > offset THEN Min(w - offset, _BUFFER_SIZE) ELSE 1)

\* mutant: the offset taken as an absolute position (io.SEEK_SET)
MutSeekSet(position, offset) == offset

\* handle.seek(offset, io.SEEK_CUR): the new position (negative: the seek raises)
SeekCur(position, offset) == position + offset

\* mutant: the sign bit is dropped
MutDeltaUnsigned(data) == data \div 2

\* (-1 if (data & 1) else 1) * (data >> 1)
SignedDelta(data) == (IF data % 2 = 1 THEN -1 ELSE 1) * (data \div 2)

(***************************************************************************)
(* The environment: patch files as an encoder writes them.  An instruction *)
(* is [kind, length, delta, literal]; kind 1 carries its literal bytes,    *)
(* kinds 2 and 3 a signed delta.                                           *)
(***************************************************************************)
SR(n)    == [kind |-> 0, length |-> n, delta |-> 0, literal |-> <<>>]
TR(n)    == [kind |-> 1, length |-> n, delta |-> 0, literal |-> [j \in 1..n |-> 96 + j]]
SC(n, d) == [kind |-> 2, length |-> n, delta |-> d, literal |-> <<>>]
TC(n, d) == [kind |-> 3, length |-> n, delta |-> d, literal |-> <<>>]

EncodeDelta(d) == EncodeNumber(IF d < 0 THEN 2 * (0 - d) + 1 ELSE 2 * d)

EncodeInstr(i) ==
    EncodeNumber((i.length - 1) * 4 + i.kind)
    \o (IF i.kind = 1 THEN i.literal ELSE IF i.kind >= 2 THEN EncodeDelta(i.delta) ELSE <<>>)

RECURSIVE EncodeInstrs(_)
EncodeInstrs(is) == IF is = <<>> THEN <<>> ELSE EncodeInstr(Head(is)) \o EncodeInstrs(Tail(is))

\* the source file of n bytes: A B C D E ...
Src(n) == [j \in 1..n |-> 64 + j]

Zeros(n) == [j \in 1..n |-> 0]

(***************************************************************************)
(* The target the patch's author means: the instructions' meaning per the  *)
(* format, byte by byte, independent of the interpreter's code paths.      *)
(***************************************************************************)
RECURSIVE RefBytes(_, _, _, _, _)
RefBytes(out, from, pos, n, self) ==
    LET f == IF self THEN out ELSE from
    IN  IF n = 0 \/ pos < 0 \/ pos >= Len(f) THEN [out |-> out, pos |-> pos]
        ELSE RefBytes(Append(out, f[pos + 1]), from, pos + 1, n - 1, self)

RECURSIVE RefRun(_, _, _)
RefRun(src, is, st) ==
    IF is = <<>> THEN st.out
    ELSE LET i == Head(is)
         IN  IF i.kind = 0
             THEN LET r == RefBytes(st.out, src, st.sp, i.length, FALSE)
                  IN  RefRun(src, Tail(is), [st EXCEPT !.out = r.out, !.sp = r.pos])
             ELSE IF i.kind = 1
             THEN RefRun(src, Tail(is), [st EXCEPT !.out = st.out \o i.literal])
             ELSE IF i.kind = 2
             THEN LET r == RefBytes(st.out, src, st.sr + i.delta, i.length, FALSE)
                  IN  RefRun(src, Tail(is), [st EXCEPT !.out = r.out, !.sr = r.pos])
             ELSE LET r == RefBytes(st.out, src, st.tr + i.delta, i.length, TRUE)
                  IN  RefRun(src, Tail(is), [st EXCEPT !.out = r.out, !.tr = r.pos])

RefTarget(src, is) == RefRun(src, is, [out |-> <<>>, sp |-> 0, sr |-> 0, tr |-> 0])

RECURSIVE SumLengths(_)
SumLengths(is) == IF is = <<>> THEN 0 ELSE Head(is).length + SumLengths(Tail(is))

\* a trailer field that matches nothing
BAD_CHECKSUM == <<128, 128, 128, 128>>

(***************************************************************************)
(* A patch file.  d = [magic, source, source_size, target_size, metadata,  *)
(* instrs, okS, okT, okP]: the header, the instructions and a trailer      *)
(* whose three checksums are the right ones where the ok flag is set.      *)
(***************************************************************************)
PatchBody(d) ==
    d.magic \o EncodeNumber(d.source_size) \o EncodeNumber(d.target_size)
    \o EncodeNumber(Len(d.metadata)) \o d.metadata \o EncodeInstrs(d.instrs)

IntendedTarget(d) ==
    LET t == RefTarget(d.source, d.instrs)
    IN  t \o Zeros(d.target_size - Len(t))

PatchFile(d) ==
    LET body == PatchBody(d)
        cs == IF d.okS THEN crc32(d.source, ZERO32) ELSE BAD_CHECKSUM
        ct == IF d.okT THEN crc32(IntendedTarget(d), ZERO32) ELSE BAD_CHECKSUM
        pre == body \o cs \o ct
        cp == IF d.okP THEN crc32(pre, ZERO32) ELSE BAD_CHECKSUM
    IN  pre \o cp

\* a well-formed patch of `source` by `instrs`
WellFormed(src, is) ==
    [magic |-> MAGIC, source |-> src, source_size |-> Len(src),
     target_size |-> SumLengths(is), metadata |-> <<>>, instrs |-> is,
     okS |-> TRUE, okT |-> TRUE, okP |-> TRUE]

(***************************************************************************)
(* The inputs of apply: (source file, patch file, patch_size,              *)
(* skip_checksum).                                                         *)
(***************************************************************************)
RECURSIVE SeqsOfLen(_, _)
SeqsOfLen(S, k) ==
    IF k = 0 THEN {<<>>} ELSE {Append(q, x) : q \in SeqsOfLen(S, k - 1), x \in S}

SeqsUpTo(S, n) == UNION {SeqsOfLen(S, k) : k \in 0..n}

InstrSet ==
    {SR(1), SR(3), TR(2), TR(10)}
    \cup {SC(2, d) : d \in {-3, 0, 1, 4}}
    \cup {TC(n, d) : n \in {1, 4, 12}, d \in {-1, 0, 1, 2}}

SourceInstrs == {SR(1), SR(3), SC(2, 0), SC(2, 4)}

\* sequences picked by hand: a back-reference cursor moved back after a copy, the
\* spec's TargetRead(5) example, a delta whose encoding takes two bytes
ExtraSeqs ==
    { <<TR(2), TC(1, 1), TC(2, -2)>>, <<TR(5)>>, <<SR(1), SC(1, 64)>>,
      <<TR(10), TC(4, 0), TC(12, -3)>> }

MkCase(d, skip, cut, adj) ==
    LET f == PatchFile(d)
    IN  [source |-> d.source, patch |-> SubSeq(f, 1, Len(f) - cut),
         patch_size |-> Len(f) + adj, skip |-> skip]

\* well-formed patches of the full source, every instruction sequence
CasesSemantics ==
    {MkCase(WellFormed(Src(MaxSourceLen), is), FALSE, 0, 0) :
        is \in SeqsUpTo(InstrSet, MaxInstrs) \cup ExtraSeqs}

\* sources of every length, read and copied past their end
CasesShortSource ==
    {MkCase(WellFormed(Src(n), is), FALSE, 0, 0) :
        n \in 0..MaxSourceLen, is \in SeqsUpTo(SourceInstrs, MaxInstrs)}

\* declared sizes below, at and above what the instructions consume and produce
CasesDeclared ==
    {MkCase([WellFormed(Src(n), is) EXCEPT !.source_size = ss, !.target_size = ts],
            skip, 0, 0) :
        n \in {0, 2}, is \in {<<>>, <<TR(2)>>, <<SR(1)>>},
        ss \in 0..MaxDeclared, ts \in 0..MaxDeclared, skip \in BOOLEAN}

\* every combination of right and wrong trailer checksums, with and without metadata
CasesChecksum ==
    {MkCase([WellFormed(Src(3), is) EXCEPT !.okS = s, !.okT = t, !.okP = p, !.metadata = m],
            skip, 0, 0) :
        is \in {<<SR(3)>>, <<TR(2), TC(4, 0)>>}, s \in BOOLEAN, t \in BOOLEAN,
        p \in BOOLEAN, m \in {<<>>, <<109, 100>>}, skip \in BOOLEAN}

FramingBase ==
    { WellFormed(Src(3), <<SR(1), SC(2, 1)>>),
      [WellFormed(Src(3), <<SR(1), TR(2)>>) EXCEPT !.metadata = <<109>>] }

\* a wrong magic; a file cut short anywhere, with patch_size the full or the cut
\* length; a patch_size that is off by a little; a literal shorter than its length
CasesFraming ==
    {MkCase([d EXCEPT !.magic = m], skip, 0, 0) :
        d \in FramingBase, m \in {<<66, 80, 83, 50>>, <<98, 112, 115, 49>>}, skip \in BOOLEAN}
    \cup UNION {{MkCase(d, FALSE, cut, 0 - k * cut) :
                    cut \in 1..Len(PatchFile(d)), k \in {0, 1}} : d \in FramingBase}
    \cup {MkCase(d, skip, 0, adj) : d \in FramingBase, adj \in {-2, -1}, skip \in BOOLEAN}
    \cup {MkCase([d EXCEPT !.okS = FALSE, !.okT = FALSE, !.okP = FALSE], skip, 0, 1) :
            d \in FramingBase, skip \in BOOLEAN}
    \cup {MkCase(WellFormed(Src(3), <<[TR(5) EXCEPT !.literal = <<97, 98, 99>>]>>),
                 skip, 0, 0) : skip \in BOOLEAN}

Cases == CasesSemantics \cup CasesShortSource \cup CasesDeclared
         \cup CasesChecksum \cup CasesFraming

(***************************************************************************)
(* The state of one call of patch() / _patch().                            *)
(***************************************************************************)
VARIABLES
    source,          \* the source file's bytes
    patch,           \* the patch file's bytes
    patch_size,      \* the argument patch_size
    skip_checksum,   \* the argument skip_checksum
    target,          \* the target file's bytes (opened 'wb': empty at first)
    state_source,    \* state.source: _ReadState over source_abs
    state_patch,     \* state.patch:  _ReadState over patch
    state_target,    \* state.target: _ReadState over target_abs
    source_rel,      \* offset of the handle source_rel
    target_rel,      \* offset of the handle target_rel
    target_rel_base, \* local target_rel_base
    header,          \* locals source_size, target_size, metadata
    command,         \* local command of the last instruction decoded (-1: none yet)
    length,          \* local length of the last instruction decoded
    delta,           \* the signed offset the last copy instruction sought by
    remaining,       \* local remaining of the two completion loops
    trailer,         \* locals source_checksum, target_checksum, patch_checksum
    result,          \* the PatchResult returned
    error,           \* the exception raised
    pc               \* where _patch is

\* _decode_number called on its own
VARIABLES
    input,           \* the bytes of the stream given to _decode_number
    input_state,     \* its _ReadState
    number,          \* what the call returned or raised
    n_encoded        \* the number the stream encodes (the test's input)

\* one call of dis() on the same patch file and patch_size
VARIABLES
    dis_reader,      \* reader: _ReadState over patch
    dis_header,      \* what the header lines printed: string, sizes, metadata
    dis_out,         \* the instruction lines printed, in order
    dis_trailer,     \* what the three checksum lines printed
    dis_error,       \* the exception raised
    dis_pc           \* where dis is ("idle": not called)

patchVars == <<source, patch, patch_size, skip_checksum, target, state_source, state_patch,
               state_target, source_rel, target_rel, target_rel_base, header, command,
               length, delta, remaining, trailer, result, error, pc>>
codecVars == <<input, input_state, number, n_encoded>>
disVars == <<dis_reader, dis_header, dis_out, dis_trailer, dis_error, dis_pc>>
vars == <<patchVars, codecVars, disVars>>

NoError == [type |-> "none", line |-> 0, label |-> "", got |-> <<>>, want |-> <<>>]
NoResult == [returned |-> FALSE, source_size |-> 0, target_size |-> 0, metadata |-> <<>>,
             source_checksum |-> ZERO32, target_checksum |-> ZERO32,
             patch_checksum |-> ZERO32]
NoHeader == [source_size |-> 0, target_size |-> 0, metadata |-> <<>>]
NoTrailer == [source_checksum |-> ZERO32, target_checksum |-> ZERO32,
              patch_checksum |-> ZERO32]
NoNumber == [done |-> FALSE, raised |-> "none", value |-> 0]

CodecIdle ==
    /\ input = <<>>
    /\ input_state = NewReadState
    /\ number = NoNumber
    /\ n_encoded = 0

NoDisHeader == [string |-> <<>>, source_size |-> 0, target_size |-> 0, metadata |-> <<>>]

DisAt(where) ==
    /\ dis_reader = NewReadState
    /\ dis_header = NoDisHeader
    /\ dis_out = <<>>
    /\ dis_trailer = NoTrailer
    /\ dis_error = NoError
    /\ dis_pc = where

DisIdle == DisAt("idle")

PatchStart(c) ==
    /\ source = c.source
    /\ patch = c.patch
    /\ patch_size = c.patch_size
    /\ skip_checksum = c.skip
    /\ target = <<>>
    /\ state_source = NewReadState
    /\ state_patch = NewReadState
    /\ state_target = NewReadState
    /\ source_rel = 0
    /\ target_rel = 0
    /\ target_rel_base = 0
    /\ header = NoHeader
    /\ command = -1
    /\ length = 0
    /\ delta = 0
    /\ remaining = 0
    /\ trailer = NoTrailer
    /\ result = NoResult
    /\ error = NoError
    /\ pc = "start"

Init == (\E c \in Cases : PatchStart(c)) /\ CodecIdle /\ DisIdle

(***************************************************************************)
(* Exceptions.  `line` is the source line of the raise (the traceback's    *)
(* last line); label, got and want are what the message is formatted from. *)
(***************************************************************************)
Raise(type, line, label, got, want) ==
    /\ error' = [type |-> type, line |-> line, label |-> label, got |-> got, want |-> want]
    /\ pc' = "raised"

\* input.read(1)[0] on an exhausted stream
RaiseIndexError == Raise("IndexError", 72, "index out of range", <<>>, <<>>)

\* seek(offset, io.SEEK_CUR) to a negative position
RaiseSeekError(line) == Raise("OSError", line, "Invalid argument", <<>>, <<>>)

\* the bytes state.patch.read() returned between two offsets of the patch file
PatchBytes(from, to) == SubSeq(patch, from + 1, to)

(***************************************************************************)
(* _patch, lines 141-150: the magic and the header.                        *)
(***************************************************************************)
MutMagicUnchecked(magic) == TRUE

MagicMatches(magic) == magic = MAGIC

ParseHeader(p) ==
    LET magic == ReadAt(p, 0, 4)
        n1 == _decode_number(p, Len(magic))
        n2 == _decode_number(p, n1.pos)
        n3 == _decode_number(p, n2.pos)
        md == ReadAt(p, n3.pos, n3.value)
    IN  IF ~MagicMatches(magic)
        THEN [status |-> "magic", endpos |-> Len(magic), magic |-> magic, header |-> NoHeader]
        ELSE IF ~n1.ok
        THEN [status |-> "index", endpos |-> n1.pos, magic |-> magic, header |-> NoHeader]
        ELSE IF ~n2.ok
        THEN [status |-> "index", endpos |-> n2.pos, magic |-> magic, header |-> NoHeader]
        ELSE IF ~n3.ok
        THEN [status |-> "index", endpos |-> n3.pos, magic |-> magic, header |-> NoHeader]
        ELSE [status |-> "ok", endpos |-> n3.pos + Len(md), magic |-> magic,
              header |-> [source_size |-> n1.value, target_size |-> n2.value,
                          metadata |-> md]]

ReadHeader ==
    /\ pc = "start"
    /\ LET h == ParseHeader(patch)
       IN  /\ state_patch' = Fold(state_patch, PatchBytes(0, h.endpos))
           /\ IF h.status = "magic"
              THEN /\ Raise("InvalidFormatError", 144, "File magic", h.magic, MAGIC)
                   /\ UNCHANGED header
              ELSE IF h.status = "index"
              THEN RaiseIndexError /\ UNCHANGED header
              ELSE /\ header' = h.header
                   /\ pc' = "loop"
                   /\ UNCHANGED error
    /\ target_rel_base' = target_rel
    /\ UNCHANGED <<source, patch, patch_size, skip_checksum, target, state_source,
                   state_target, source_rel, target_rel, command, length, delta,
                   remaining, trailer, result, codecVars, disVars>>

(***************************************************************************)
(* _patch, lines 152-177: one iteration of the instruction loop.           *)
(***************************************************************************)
patch_end == patch_size - TRAILER_SIZE

InLoop == pc = "loop" /\ state_patch.position < patch_end

\* data = _decode_number(state.patch) at the top of the loop body
Decoded == _decode_number(patch, state_patch.position)

\* mutant: three bits taken for the kind (data & 7)
MutCommandOf3Bits(data) == data % 8

CommandOf(data) == data % 4          \* data & 3
LengthOf(data) == (data \div 4) + 1  \* (data >> 2) + 1

\* the bytes a copy appended to the target file
\* mutant: the last byte written is left out of the checksum
MutAppendedButLast(newTarget) == SubSeq(newTarget, Len(target) + 1, Len(newTarget) - 1)

Appended(newTarget) == SubSeq(newTarget, Len(target) + 1, Len(newTarget))

InstrDecodeError ==
    /\ InLoop
    /\ ~Decoded.ok
    /\ state_patch' = Fold(state_patch, PatchBytes(state_patch.position, Decoded.pos))
    /\ RaiseIndexError
    /\ UNCHANGED <<source, patch, patch_size, skip_checksum, target, state_source,
                   state_target, source_rel, target_rel, target_rel_base, header,
                   command, length, delta, remaining, trailer, result, codecVars, disVars>>

\* mutant: one source handle for both cursors, so that SourceRead moves source_rel
MutSourceReadMovesRel ==
    /\ InLoop
    /\ Decoded.ok
    /\ CommandOf(Decoded.value) = 0
    /\ LET len == LengthOf(Decoded.value)
           c == _buffered_copy(source, state_source.position, target, len,
                               _BUFFER_SIZE, FALSE)
       IN  /\ command' = 0
           /\ length' = len
           /\ state_patch' = Fold(state_patch, PatchBytes(state_patch.position, Decoded.pos))
           /\ state_source' = Fold(state_source, Appended(c.target))
           /\ source_rel' = c.pos
           /\ target' = c.target
           /\ state_target' = Fold(state_target, Appended(c.target))
    /\ UNCHANGED <<source, patch, patch_size, skip_checksum, target_rel,
                   target_rel_base, header, delta, remaining, trailer, result, error,
                   pc, codecVars, disVars>>

SourceRead ==
    /\ InLoop
    /\ Decoded.ok
    /\ CommandOf(Decoded.value) = 0
    /\ LET len == LengthOf(Decoded.value)
           c == _buffered_copy(source, state_source.position, target, len,
                               _BUFFER_SIZE, FALSE)
       IN  /\ command' = 0
           /\ length' = len
           /\ state_patch' = Fold(state_patch, PatchBytes(state_patch.position, Decoded.pos))
           /\ state_source' = Fold(state_source, Appended(c.target))
           /\ target' = c.target
           /\ state_target' = Fold(state_target, Appended(c.target))
    /\ UNCHANGED <<source, patch, patch_size, skip_checksum, source_rel, target_rel,
                   target_rel_base, header, delta, remaining, trailer, result, error,
                   pc, codecVars, disVars>>

TargetRead ==
    /\ InLoop
    /\ Decoded.ok
    /\ CommandOf(Decoded.value) = 1
    /\ LET len == LengthOf(Decoded.value)
           c == _buffered_copy(patch, Decoded.pos, target, len, _BUFFER_SIZE, FALSE)
       IN  /\ command' = 1
           /\ length' = len
           /\ state_patch' = Fold(state_patch, PatchBytes(state_patch.position, c.pos))
           /\ target' = c.target
           /\ state_target' = Fold(state_target, Appended(c.target))
    /\ UNCHANGED <<source, patch, patch_size, skip_checksum, state_source, source_rel,
                   target_rel, target_rel_base, header, delta, remaining, trailer,
                   result, error, pc, codecVars, disVars>>

SourceCopy ==
    /\ InLoop
    /\ Decoded.ok
    /\ CommandOf(Decoded.value) = 2
    /\ LET len == LengthOf(Decoded.value)
           d2 == _decode_number(patch, Decoded.pos)
           to == SeekCur(source_rel, SignedDelta(d2.value))
           c == _buffered_copy(source, to, target, len, _BUFFER_SIZE, FALSE)
       IN  /\ command' = 2
           /\ length' = len
           /\ state_patch' = Fold(state_patch, PatchBytes(state_patch.position, d2.pos))
           /\ IF ~d2.ok
              THEN /\ RaiseIndexError
                   /\ UNCHANGED <<target, state_target, source_rel, delta>>
              ELSE IF to < 0
              THEN /\ RaiseSeekError(163)
                   /\ delta' = SignedDelta(d2.value)
                   /\ UNCHANGED <<target, state_target, source_rel>>
              ELSE /\ delta' = SignedDelta(d2.value)
                   /\ source_rel' = c.pos
                   /\ target' = c.target
                   /\ state_target' = Fold(state_target, Appended(c.target))
                   /\ UNCHANGED <<error, pc>>
    /\ UNCHANGED <<source, patch, patch_size, skip_checksum, state_source, target_rel,
                   target_rel_base, header, remaining, trailer, result, codecVars, disVars>>

TargetCopy ==
    /\ InLoop
    /\ Decoded.ok
    /\ CommandOf(Decoded.value) = 3
    /\ LET len == LengthOf(Decoded.value)
           d2 == _decode_number(patch, Decoded.pos)
           to == SeekCur(target_rel, SignedDelta(d2.value))
           target_rel_offset == to - target_rel_base
           c == TargetCopyBody(target, state_target.position, target_rel_offset, len)
       IN  /\ command' = 3
           /\ length' = len
           /\ state_patch' = Fold(state_patch, PatchBytes(state_patch.position, d2.pos))
           /\ IF ~d2.ok
              THEN /\ RaiseIndexError
                   /\ UNCHANGED <<target, state_target, target_rel, delta>>
              ELSE IF to < 0
              THEN /\ RaiseSeekError(167)
                   /\ delta' = SignedDelta(d2.value)
                   /\ UNCHANGED <<target, state_target, target_rel>>
              ELSE /\ delta' = SignedDelta(d2.value)
                   /\ target_rel' = c.pos + target_rel_base
                   /\ target' = c.target
                   /\ state_target' = Fold(state_target, Appended(c.target))
                   /\ UNCHANGED <<error, pc>>
    /\ UNCHANGED <<source, patch, patch_size, skip_checksum, state_source, source_rel,
                   target_rel_base, header, remaining, trailer, result, codecVars, disVars>>

LoopExit ==
    /\ pc = "loop"
    /\ ~(state_patch.position < patch_end)
    /\ pc' = "drain_source"
    /\ UNCHANGED <<source, patch, patch_size, skip_checksum, target, state_source,
                   state_patch, state_target, source_rel, target_rel, target_rel_base,
                   header, command, length, delta, remaining, trailer, result, error,
                   codecVars, disVars>>

(***************************************************************************)
(* _patch, lines 180-184: reading the source up to source_size.            *)
(***************************************************************************)
\* the inner loop: while remaining > 0: read(min(remaining, 8192)); remaining -= 8192
RECURSIVE DrainChunks(_, _)
DrainChunks(pos, rem) ==
    IF rem > 0
    THEN DrainChunks(pos + Len(ReadAt(source, pos, Min(rem, _BUFFER_SIZE))),
                     rem - _BUFFER_SIZE)
    ELSE [pos |-> pos, remaining |-> rem]

DrainSourceOuter ==
    /\ pc = "drain_source"
    /\ IF state_source.position < header.source_size
       THEN /\ remaining' = header.source_size - state_source.position
            /\ pc' = "drain_source_inner"
       ELSE /\ pc' = "pad_target"
            /\ UNCHANGED remaining
    /\ UNCHANGED <<source, patch, patch_size, skip_checksum, target, state_source,
                   state_patch, state_target, source_rel, target_rel, target_rel_base,
                   header, command, length, delta, trailer, result, error, codecVars, disVars>>

DrainSourceInner ==
    /\ pc = "drain_source_inner"
    /\ LET r == DrainChunks(state_source.position, remaining)
       IN  /\ state_source' = Fold(state_source,
                                   SubSeq(source, state_source.position + 1, r.pos))
           /\ remaining' = r.remaining
    /\ pc' = "drain_source"
    /\ UNCHANGED <<source, patch, patch_size, skip_checksum, target, state_patch,
                   state_target, source_rel, target_rel, target_rel_base, header,
                   command, length, delta, trailer, result, error, codecVars, disVars>>

(***************************************************************************)
(* _patch, lines 185-189: padding the target with zeros up to target_size. *)
(***************************************************************************)
\* the inner loop: while remaining > 0: write(_EMPTY_DATA[:min(remaining, 8192)]) ...
RECURSIVE PadChunks(_, _)
PadChunks(tgt, rem) ==
    IF rem > 0
    THEN PadChunks(tgt \o Zeros(Min(rem, _BUFFER_SIZE)), rem - _BUFFER_SIZE)
    ELSE [target |-> tgt, remaining |-> rem]

PadTargetOuter ==
    /\ pc = "pad_target"
    /\ IF state_target.position < header.target_size
       THEN /\ remaining' = header.target_size - state_target.position
            /\ pc' = "pad_target_inner"
       ELSE /\ pc' = "verify_source"
            /\ UNCHANGED remaining
    /\ UNCHANGED <<source, patch, patch_size, skip_checksum, target, state_source,
                   state_patch, state_target, source_rel, target_rel, target_rel_base,
                   header, command, length, delta, trailer, result, error, codecVars, disVars>>

PadTargetInner ==
    /\ pc = "pad_target_inner"
    /\ LET r == PadChunks(target, remaining)
       IN  /\ target' = r.target
           /\ state_target' = Fold(state_target, Appended(r.target))
           /\ remaining' = r.remaining
    /\ pc' = "pad_target"
    /\ UNCHANGED <<source, patch, patch_size, skip_checksum, state_source, state_patch,
                   source_rel, target_rel, target_rel_base, header, command, length,
                   delta, trailer, result, error, codecVars, disVars>>

(***************************************************************************)
(* _patch, lines 191-208: the trailer, the three comparisons, the result.  *)
(***************************************************************************)
MutFailsIgnoringSkip(skip, computed, expected) == computed # expected

\* not skip_checksum and <computed> != <expected>
Fails(skip, computed, expected) == ~skip /\ computed # expected

VerifySource ==
    /\ pc = "verify_source"
    /\ LET data == ReadAt(patch, state_patch.position, 4)
           source_checksum == FromBytesLE(data)
       IN  /\ state_patch' = Fold(state_patch, data)
           /\ trailer' = [trailer EXCEPT !.source_checksum = source_checksum]
           /\ IF Fails(skip_checksum, state_source.checksum, source_checksum)
              THEN Raise("ChecksumFailure", 193, "Source checksum",
                         state_source.checksum, source_checksum)
              ELSE pc' = "verify_target" /\ UNCHANGED error
    /\ UNCHANGED <<source, patch, patch_size, skip_checksum, target, state_source,
                   state_target, source_rel, target_rel, target_rel_base, header,
                   command, length, delta, remaining, result, codecVars, disVars>>

VerifyTarget ==
    /\ pc = "verify_target"
    /\ LET data == ReadAt(patch, state_patch.position, 4)
           target_checksum == FromBytesLE(data)
       IN  /\ state_patch' = Fold(state_patch, data)
           /\ trailer' = [trailer EXCEPT !.target_checksum = target_checksum]
           /\ IF Fails(skip_checksum, state_target.checksum, target_checksum)
              THEN Raise("ChecksumFailure", 196, "Source checksum",
                         state_target.checksum, target_checksum)
              ELSE pc' = "verify_patch" /\ UNCHANGED error
    /\ UNCHANGED <<source, patch, patch_size, skip_checksum, target, state_source,
                   state_target, source_rel, target_rel, target_rel_base, header,
                   command, length, delta, remaining, result, codecVars, disVars>>

\* the last field is read from the file `patch` itself, whose offset is the one
\* state.patch's reads left it at; state.patch is not touched
VerifyPatch ==
    /\ pc = "verify_patch"
    /\ LET data == ReadAt(patch, state_patch.position, 4)
           patch_checksum == FromBytesLE(data)
       IN  /\ trailer' = [trailer EXCEPT !.patch_checksum = patch_checksum]
           /\ IF Fails(skip_checksum, state_patch.checksum, patch_checksum)
              THEN /\ Raise("ChecksumFailure", 199, "Source checksum",
                            state_patch.checksum, patch_checksum)
                   /\ UNCHANGED result
              ELSE /\ result' = [returned |-> TRUE,
                                 source_size |-> header.source_size,
                                 target_size |-> header.target_size,
                                 metadata |-> header.metadata,
                                 source_checksum |-> trailer.source_checksum,
                                 target_checksum |-> trailer.target_checksum,
                                 patch_checksum |-> patch_checksum]
                   /\ pc' = "returned"
                   /\ UNCHANGED error
    /\ UNCHANGED <<source, patch, patch_size, skip_checksum, target, state_source,
                   state_patch, state_target, source_rel, target_rel, target_rel_base,
                   header, command, length, delta, remaining, codecVars, disVars>>

Next ==
    \/ ReadHeader
    \/ InstrDecodeError
    \/ SourceRead
    \/ TargetRead
    \/ SourceCopy
    \/ TargetCopy
    \/ LoopExit
    \/ DrainSourceOuter
    \/ DrainSourceInner
    \/ PadTargetOuter
    \/ PadTargetInner
    \/ VerifySource
    \/ VerifyTarget
    \/ VerifyPatch

Spec == Init /\ [][Next]_vars

\* _patch is sequential code: whenever it has a next step, it takes it
FairSpec == Spec /\ WF_vars(Next)

(***************************************************************************)
(* _decode_number called on its own, on the encoding of a number n         *)
(* followed by one more byte, cut after any number of bytes.               *)
(***************************************************************************)
PatchIdle ==
    PatchStart([source |-> <<>>, patch |-> <<>>, patch_size |-> 0, skip |-> FALSE])

VarIntInit ==
    /\ PatchIdle
    /\ DisIdle
    /\ \E n \in 0..MaxN :
         \E k \in 0..(Len(EncodeNumber(n)) + 1) :
            /\ n_encoded = n
            /\ input = SubSeq(EncodeNumber(n) \o <<7>>, 1, k)
    /\ input_state = NewReadState
    /\ number = NoNumber

DecodeCall ==
    /\ ~number.done
    /\ LET r == _decode_number(input, input_state.position)
       IN  /\ input_state' = Fold(input_state, SubSeq(input, input_state.position + 1, r.pos))
           /\ number' = IF r.ok
                        THEN [done |-> TRUE, raised |-> "none", value |-> r.value]
                        ELSE [done |-> TRUE, raised |-> "IndexError", value |-> 0]
    /\ UNCHANGED <<input, n_encoded, patchVars, disVars>>

VarIntNext == DecodeCall

VarIntSpec == VarIntInit /\ [][VarIntNext]_vars

(***************************************************************************)
(* dis(patch, patch_size), lines 88-128.  Every print is kept as a record  *)
(* of what it printed.  dis reads the patch through its own _ReadState and *)
(* touches neither the source nor the target.                              *)
(***************************************************************************)
MaxDelta == 5        \* copies are run with every signed offset in -MaxDelta..MaxDelta

\* a back-reference cursor moved to 4, then a copy at every signed offset from there
CasesDelta ==
    {MkCase(WellFormed(Src(MaxSourceLen), <<TR(3), SC(1, 3), SC(1, s)>>), FALSE, 0, 0) :
        s \in (0 - MaxDelta)..MaxDelta}
    \cup {MkCase(WellFormed(Src(MaxSourceLen), <<TR(10), TC(1, 3), TC(1, s)>>), FALSE, 0, 0) :
        s \in (0 - MaxDelta)..MaxDelta}

DisCases == Cases \cup CasesDelta

\* lines 94-102: the four header reads; nothing here looks at the magic
DisParseHeader(p) ==
    LET string == ReadAt(p, 0, 4)
        n1 == _decode_number(p, Len(string))
        n2 == _decode_number(p, n1.pos)
        n3 == _decode_number(p, n2.pos)
        md == ReadAt(p, n3.pos, n3.value)
        printed(k) == [string |-> string,
                       source_size |-> IF k >= 1 THEN n1.value ELSE 0,
                       target_size |-> IF k >= 2 THEN n2.value ELSE 0,
                       metadata |-> IF k >= 3 THEN md ELSE <<>>]
    IN  IF ~n1.ok THEN [ok |-> FALSE, endpos |-> n1.pos, header |-> printed(0)]
        ELSE IF ~n2.ok THEN [ok |-> FALSE, endpos |-> n2.pos, header |-> printed(1)]
        ELSE IF ~n3.ok THEN [ok |-> FALSE, endpos |-> n3.pos, header |-> printed(2)]
        ELSE [ok |-> TRUE, endpos |-> n3.pos + Len(md), header |-> printed(3)]

DisRaiseIndexError ==
    /\ dis_error' = [type |-> "IndexError", line |-> 72, label |-> "index out of range",
                     got |-> <<>>, want |-> <<>>]
    /\ dis_pc' = "raised"

DisReadHeader ==
    /\ dis_pc = "start"
    /\ LET h == DisParseHeader(patch)
       IN  /\ dis_reader' = Fold(dis_reader, PatchBytes(0, h.endpos))
           /\ dis_header' = h.header
           /\ IF h.ok THEN dis_pc' = "loop" /\ UNCHANGED dis_error
                      ELSE DisRaiseIndexError
    /\ UNCHANGED <<dis_out, dis_trailer, patchVars, codecVars>>

DisInLoop == dis_pc = "loop" /\ dis_reader.position < patch_end

\* mutant: the copies' offset is printed without its sign, as data >> 1
MutDisDecodeUnsigned(pos) ==
    LET d == _decode_number(patch, pos)
        lit == ReadAt(patch, d.pos, LengthOf(d.value))
        d2 == _decode_number(patch, d.pos)
    IN  IF ~d.ok THEN [ok |-> FALSE, endpos |-> d.pos]
        ELSE IF CommandOf(d.value) \in {0, 1}
        THEN [ok |-> TRUE, kind |-> CommandOf(d.value), length |-> LengthOf(d.value),
              endpos |-> IF CommandOf(d.value) = 1 THEN d.pos + Len(lit) ELSE d.pos,
              delta |-> 0, literal |-> IF CommandOf(d.value) = 1 THEN lit ELSE <<>>]
        ELSE IF ~d2.ok THEN [ok |-> FALSE, endpos |-> d2.pos]
        ELSE [ok |-> TRUE, endpos |-> d2.pos, kind |-> CommandOf(d.value),
              length |-> LengthOf(d.value), delta |-> d2.value \div 2,
              literal |-> <<>>]

\* the instruction at offset pos of the patch, as lines 107-119 decode and print it
DisDecode(pos) ==
    LET d == _decode_number(patch, pos)
        cmd == CommandOf(d.value)
        len == LengthOf(d.value)
        lit == ReadAt(patch, d.pos, len)
        d2 == _decode_number(patch, d.pos)
    IN  IF ~d.ok THEN [ok |-> FALSE, endpos |-> d.pos]
        ELSE IF cmd = 0
        THEN [ok |-> TRUE, endpos |-> d.pos, kind |-> cmd, length |-> len, delta |-> 0,
              literal |-> <<>>]
        ELSE IF cmd = 1
        THEN [ok |-> TRUE, endpos |-> d.pos + Len(lit), kind |-> cmd, length |-> len,
              delta |-> 0, literal |-> lit]
        ELSE IF ~d2.ok THEN [ok |-> FALSE, endpos |-> d2.pos]
        ELSE [ok |-> TRUE, endpos |-> d2.pos, kind |-> cmd, length |-> len,
              delta |-> SignedDelta(d2.value), literal |-> <<>>]

DisInstr ==
    /\ DisInLoop
    /\ LET i == DisDecode(dis_reader.position)
       IN  /\ i.ok
           /\ dis_reader' = Fold(dis_reader, PatchBytes(dis_reader.position, i.endpos))
           /\ dis_out' = Append(dis_out, [kind |-> i.kind, length |-> i.length,
                                          delta |-> i.delta, literal |-> i.literal,
                                          start |-> dis_reader.position,
                                          endpos |-> i.endpos])
    /\ UNCHANGED <<dis_header, dis_trailer, dis_error, dis_pc, patchVars, codecVars>>

DisInstrDecodeError ==
    /\ DisInLoop
    /\ LET i == DisDecode(dis_reader.position)
       IN  /\ ~i.ok
           /\ dis_reader' = Fold(dis_reader, PatchBytes(dis_reader.position, i.endpos))
           /\ DisRaiseIndexError
    /\ UNCHANGED <<dis_header, dis_out, dis_trailer, patchVars, codecVars>>

\* lines 123-128: two fields read through reader, the third from patch itself
DisTrailer ==
    /\ dis_pc = "loop"
    /\ ~(dis_reader.position < patch_end)
    /\ LET p == dis_reader.position
           f1 == ReadAt(patch, p, 4)
           f2 == ReadAt(patch, p + Len(f1), 4)
           f3 == ReadAt(patch, p + Len(f1) + Len(f2), 4)
       IN  /\ dis_reader' = Fold(dis_reader, f1 \o f2)
           /\ dis_trailer' = [source_checksum |-> FromBytesLE(f1),
                              target_checksum |-> FromBytesLE(f2),
                              patch_checksum |-> FromBytesLE(f3)]
    /\ dis_pc' = "done"
    /\ UNCHANGED <<dis_header, dis_out, dis_error, patchVars, codecVars>>

DisFinished == dis_pc \in {"done", "raised"}

\* dis on a patch file, then patch() on the same file
DisInit == (\E c \in DisCases : PatchStart(c)) /\ CodecIdle /\ DisAt("start")

DisNext ==
    \/ DisReadHeader
    \/ DisInstr
    \/ DisInstrDecodeError
    \/ DisTrailer
    \/ (DisFinished /\ Next)

DisSpec == DisInit /\ [][DisNext]_vars

(***************************************************************************)
(*                              Properties                                 *)
(***************************************************************************)
Returned == pc = "returned"
Raised == pc = "raised"

\* C1: whenever apply returns, the target write position equals the declared
\* target_size, and with verification enabled the computed target checksum equals
\* the trailer's target checksum.
C1_ReturnedTargetHasDeclaredSize ==
    Returned =>
        /\ state_target.position = header.target_size
        /\ (~skip_checksum => state_target.checksum = trailer.target_checksum)

\* C2: every call of apply eventually returns or raises.
C2_ApplyTerminates == <>(Returned \/ Raised)

\* C3: a computed checksum that differs from its trailer value raises
\* ChecksumFailure unless skip_checksum is set; with skip_checksum set no checksum
\* error is ever raised, the comparisons are passed, and the PatchResult returned
\* carries the trailer's (mismatched) values.
C3_ChecksumMismatchRaisesUnlessSkipped ==
    /\ (~skip_checksum /\ pc \in {"verify_target", "verify_patch", "returned"})
          => state_source.checksum = trailer.source_checksum
    /\ (~skip_checksum /\ pc \in {"verify_patch", "returned"})
          => state_target.checksum = trailer.target_checksum
    /\ (~skip_checksum /\ Returned) => state_patch.checksum = trailer.patch_checksum
    /\ (Raised /\ error.type = "ChecksumFailure")
          => /\ ~skip_checksum
             /\ error.got # error.want
             /\ error.got = (IF error.line = 193 THEN state_source.checksum
                             ELSE IF error.line = 196 THEN state_target.checksum
                             ELSE state_patch.checksum)
    /\ skip_checksum => error.type # "ChecksumFailure"
    /\ Returned => /\ result.source_checksum = trailer.source_checksum
                   /\ result.target_checksum = trailer.target_checksum
                   /\ result.patch_checksum = trailer.patch_checksum
                   /\ result.patch_checksum = FromBytesLE(ReadAt(patch, state_patch.position, 4))

\* C3's case: apply returned under skip_checksum although the target checksum it
\* computed is not the trailer's, and the result carries the trailer's value.
C3_Witness ==
    /\ Returned
    /\ skip_checksum
    /\ state_target.checksum # result.target_checksum
    /\ state_patch.checksum # result.patch_checksum

\* C4: a checksum error names the field that mismatched: source, target or patch.
C4_ChecksumErrorNamesItsField ==
    (Raised /\ error.type = "ChecksumFailure") =>
        error.label = (IF error.line = 193 THEN "Source checksum"
                       ELSE IF error.line = 196 THEN "Target checksum"
                       ELSE "Patch checksum")

\* the TargetCopy about to run, read from the patch at the loop's position
NextIsTargetCopy ==
    /\ InLoop
    /\ Decoded.ok
    /\ CommandOf(Decoded.value) = 3
    /\ _decode_number(patch, Decoded.pos).ok

NextDelta == SignedDelta(_decode_number(patch, Decoded.pos).value)
NextLength == LengthOf(Decoded.value)

\* C5: a TargetCopy(length, delta) whose read position r after the seek satisfies
\* 0 <= r < w (w the target write position) appends exactly length bytes, the i-th
\* of them equal to the target byte at index r+i, also when r+length > w; the bytes
\* already written stay as they were.
C5_TargetCopyReproducesRun ==
    [][ (NextIsTargetCopy /\ 0 <= target_rel + NextDelta
                          /\ target_rel + NextDelta < state_target.position)
        => LET r == target_rel + NextDelta
               w == state_target.position
           IN  /\ Len(target') = w + NextLength
               /\ state_target'.position = w + NextLength
               /\ SubSeq(target', 1, w) = target
               /\ \A i \in 0..(NextLength - 1) : target'[w + i + 1] = target'[r + i + 1]
      ]_vars

\* C5's case: a TargetCopy on the bulk path (w - 8 > r) that read bytes it wrote
\* itself (r + length > w) has completed.
C5_Witness ==
    /\ pc = "loop"
    /\ command = 3
    /\ LET w == state_target.position - length
           r == target_rel - length
       IN  /\ r >= 0
           /\ w - BULK_MARGIN > r
           /\ r + length > w

\* C6: a patch whose first 4 bytes are not "BPS1" raises InvalidFormatError with
\* nothing written to the target and nothing read from the source.
C6_BadMagicRaisesBeforeAnyOutput ==
    (pc # "start" /\ ReadAt(patch, 0, 4) # MAGIC) =>
        /\ Raised
        /\ error.type = "InvalidFormatError"
        /\ error.line = 144
        /\ state_target.position = 0
        /\ target = <<>>
        /\ state_source.position = 0
        /\ source_rel = 0

\* C6's case: four bytes that are not the magic were read and the error raised.
C6_Witness ==
    /\ Raised
    /\ Len(patch) > 4
    /\ ReadAt(patch, 0, 4) # MAGIC
    /\ error.type = "InvalidFormatError"

\* the stream has no byte with the high bit set: it ends before a terminator
NoTerminator == \A i \in 1..Len(input) : input[i] < 128

\* C7: _decode_number raises InvalidFormatError when the stream is exhausted before
\* a byte with the high bit set, for an empty stream and after continuation bytes.
C7_ExhaustedStreamIsFormatError ==
    (number.done /\ NoTerminator) => number.raised = "InvalidFormatError"

\* C8: _decode_number on the encoding of n returns n and consumes exactly the bytes
\* of that encoding, whether or not more bytes follow.
C8_VarIntRoundTrip ==
    (number.done /\ Len(input) >= Len(EncodeNumber(n_encoded))) =>
        /\ number.raised = "none"
        /\ number.value = n_encoded
        /\ input_state.position = Len(EncodeNumber(n_encoded))

\* C8's case: a three-byte encoding, followed by one more byte, was decoded.
C8_Witness ==
    /\ number.done
    /\ Len(EncodeNumber(n_encoded)) = 3
    /\ Len(input) = 4
    /\ number.value = n_encoded

\* the SourceCopy about to run
NextIsSourceCopy ==
    /\ InLoop
    /\ Decoded.ok
    /\ CommandOf(Decoded.value) = 2
    /\ _decode_number(patch, Decoded.pos).ok

\* C9 as stated: after SourceRead(k) alone, SourceCopy(length, -k) on a source of at
\* least k bytes seeks to k + (-k) = 0 and copies source bytes [0, length).
C9_SourceCopyResolvesAgainstReadPosition ==
    [][ (NextIsSourceCopy /\ command = 0 /\ length = state_source.position
         /\ Len(target) = length /\ NextDelta = 0 - length)
        => /\ pc' = "loop"
           /\ target' = target \o ReadAt(source, 0, NextLength)
      ]_vars

\* C9 amended: SourceCopy resolves its delta against the source back-reference
\* cursor's own position, which starts at 0 and which SourceRead does not move: the
\* copy reads at source_rel + delta and leaves the cursor behind the bytes read; a
\* negative position raises (OSError) with nothing copied, as delta = -k right
\* after SourceRead(k) does.  SourceRead(3), SourceCopy(2, 0) on A B C D E yields
\* A B C A B.
C9_SourceCopyResolvesAgainstOwnCursor ==
    /\ [][ NextIsSourceCopy
           => LET to == source_rel + NextDelta
                  data == ReadAt(source, to, NextLength)
              IN  IF to < 0
                  THEN /\ pc' = "raised"
                       /\ error'.type = "OSError"
                       /\ target' = target
                  ELSE /\ pc' = "loop"
                       /\ target' = target \o data
                       /\ source_rel' = to + Len(data)
                       /\ state_source' = state_source
         ]_vars
    /\ [][ (InLoop /\ Decoded.ok /\ CommandOf(Decoded.value) = 0)
           => source_rel' = source_rel ]_vars
    /\ [](( /\ Returned
            /\ source = <<65, 66, 67, 68, 69>>
            /\ patch = PatchFile(WellFormed(source, <<SR(3), SC(2, 0)>>)) )
          => target = <<65, 66, 67, 65, 66>>)

\* C9's case: SourceRead(3), SourceCopy(2, 0) ran on A B C D E and apply returned.
C9_Witness ==
    /\ Returned
    /\ source = <<65, 66, 67, 68, 69>>
    /\ patch = PatchFile(WellFormed(source, <<SR(3), SC(2, 0)>>))
    /\ command = 2
    /\ target = <<65, 66, 67, 65, 66>>

\* C10: when the patch checksum is compared, the running patch checksum is the
\* CRC-32 of exactly the first patch_size - 4 bytes of the patch.
C10_PatchChecksumCoversAllButLastField ==
    pc = "verify_patch" =>
        state_patch.checksum = crc32(ReadAt(patch, 0, patch_size - 4), ZERO32)

\* the VarInt value that encodes the signed offset s: 2*|s|, plus 1 when s < 0
DeltaWord(s) == 2 * (IF s < 0 THEN 0 - s ELSE s) + (IF s < 0 THEN 1 ELSE 0)

\* the second VarInt of the copy instruction _patch is about to run
NextDeltaWord == _decode_number(patch, Decoded.pos).value

\* C11: for every signed offset s in -MaxDelta..MaxDelta encoded as 2*|s| + (1 if
\* s < 0), SourceCopy and TargetCopy seek their back-reference cursor by exactly s
\* from where it stands (the copy then moves it on by the bytes it read; a seek to a
\* negative position raises and copies nothing), and dis prints the same s.
C11_SignedDeltaRoundTrip ==
    /\ [][ \A s \in (0 - MaxDelta)..MaxDelta :
             (NextIsSourceCopy /\ NextDeltaWord = DeltaWord(s))
             => /\ delta' = s
                /\ IF source_rel + s < 0
                   THEN pc' = "raised" /\ target' = target
                   ELSE /\ pc' = "loop"
                        /\ source_rel' = source_rel + s + (Len(target') - Len(target))
                        /\ target' = target \o ReadAt(source, source_rel + s, NextLength)
         ]_vars
    /\ [][ \A s \in (0 - MaxDelta)..MaxDelta :
             (NextIsTargetCopy /\ NextDeltaWord = DeltaWord(s))
             => /\ delta' = s
                /\ IF target_rel + s < 0
                   THEN pc' = "raised" /\ target' = target
                   ELSE /\ pc' = "loop"
                        /\ target_rel' = target_rel + s + (Len(target') - Len(target))
         ]_vars
    /\ [][ \A s \in (0 - MaxDelta)..MaxDelta :
             LET d == _decode_number(patch, dis_reader.position)
                 d2 == _decode_number(patch, d.pos)
             IN  (DisInLoop /\ d.ok /\ CommandOf(d.value) \in {2, 3} /\ d2.ok
                  /\ d2.value = DeltaWord(s))
                 => /\ Len(dis_out') = Len(dis_out) + 1
                    /\ dis_out'[Len(dis_out')].delta = s
         ]_vars

\* C11's case: dis printed SourceCopy -4 and TargetCopy -4, and _patch ran a copy
\* with that offset: the cursor went from 4 back to 0 and on by the byte copied.
C11_Witness ==
    /\ \E i \in 1..Len(dis_out) : dis_out[i].delta = -4
    /\ pc = "loop"
    /\ command \in {2, 3}
    /\ delta = -4
    /\ length = 1
    /\ (command = 2 => source_rel = 1)
    /\ (command = 3 => target_rel = 1)

PatchFinished == Returned \/ Raised

\* C12 as stated: on the same patch bytes and patch_size, once dis and _patch have
\* both ended they have decoded the same bytes of the patch: they stand at the same
\* patch position and have read the same three trailer values.
C12_DisDecodesAllThatPatchDecodes ==
    (DisFinished /\ PatchFinished) =>
        /\ state_patch.position = dis_reader.position
        /\ trailer = dis_trailer

\* C12 amended: what _patch decodes before it returns or raises is a prefix of what
\* dis decodes.  A header _patch accepts is dis's header, ending at the same patch
\* position; every instruction _patch decodes, executed or ended by a seek error,
\* is the dis record that starts at the same position, with the same kind, length,
\* signed delta and end position; where _patch's decoding runs out of bytes, so did
\* dis's, at the same position; every trailer field _patch reads is the one dis
\* printed; and when _patch returns, dis completed at the same patch position.
C12_PatchDecodesPrefixOfDis ==
    /\ [][ (pc = "start" /\ pc' = "loop")
           => /\ header' = [source_size |-> dis_header.source_size,
                            target_size |-> dis_header.target_size,
                            metadata |-> dis_header.metadata]
              /\ state_patch'.position = DisParseHeader(patch).endpos
              /\ dis_header.string = MAGIC
         ]_vars
    /\ [][ (InLoop /\ (pc' = "loop" \/ error'.type = "OSError"))
           => \E i \in 1..Len(dis_out) :
                /\ dis_out[i].start = state_patch.position
                /\ dis_out[i].endpos = state_patch'.position
                /\ dis_out[i].kind = command'
                /\ dis_out[i].length = length'
                /\ (command' \in {2, 3} => dis_out[i].delta = delta')
                /\ (i = 1 => dis_out[i].start = DisParseHeader(patch).endpos)
                /\ (i > 1 => dis_out[i].start = dis_out[i - 1].endpos)
         ]_vars
    /\ [][ (InLoop /\ error'.type = "IndexError")
           => /\ dis_pc = "raised"
              /\ dis_error.type = "IndexError"
              /\ dis_reader.position = state_patch'.position
         ]_vars
    /\ []( pc \in {"verify_target", "verify_patch", "returned"}
           => /\ dis_pc = "done"
              /\ trailer.source_checksum = dis_trailer.source_checksum )
    /\ []( pc \in {"verify_patch", "returned"}
           => trailer.target_checksum = dis_trailer.target_checksum )
    /\ []( Returned
           => /\ trailer = dis_trailer
              /\ state_patch.position = dis_reader.position
              /\ state_patch.checksum = dis_reader.checksum
              /\ (Len(dis_out) > 0 => dis_out[Len(dis_out)].endpos + 8 = state_patch.position) )

\* C12's case: dis printed two instructions or more, a TargetRead and a TargetCopy
\* among them, and the trailer; _patch then ran the same patch and returned.
C12_Witness ==
    /\ Returned
    /\ dis_pc = "done"
    /\ Len(dis_out) >= 2
    /\ \E i, j \in 1..Len(dis_out) : dis_out[i].kind = 1 /\ dis_out[j].kind = 3
    /\ trailer = dis_trailer

\* C13: during every TargetCopy, on both paths, the bytes a read of the
\* back-reference cursor returns lie below the target write position at the time of
\* the read; on the bulk path every chunk asked for is at most
\* min(write position - read offset, 8192) bytes and lies entirely inside the region
\* already written, so it is returned in full.
C13_TargetCopyReadsOnlyWrittenBytes ==
    [][ (NextIsTargetCopy /\ target_rel + NextDelta >= 0)
        => LET w == state_target.position
               r == target_rel + NextDelta - target_rel_base
               log == TargetCopyLog(target, w, r, NextLength)
           IN  /\ target' = log.target
               /\ target_rel' = log.pos + target_rel_base
               /\ Len(log.reads) > 0
               /\ \A k \in 1..Len(log.reads) :
                     LET rd == log.reads[k]
                     IN  /\ \A j \in 1..rd.got :
                               /\ rd.offset + (j - 1) < rd.wpos
                               /\ log.target[rd.wpos + j] = log.target[rd.offset + j]
                         /\ (w - BULK_MARGIN > r)
                               => /\ rd.size <= Min(w - r, _BUFFER_SIZE)
                                  /\ rd.offset + rd.size <= rd.wpos
                                  /\ rd.got = rd.size
      ]_vars

\* C13's case: a TargetCopy on the bulk path that took more than one chunk (its
\* length exceeds the distance between the write position and the read offset).
C13_Witness ==
    /\ pc = "loop"
    /\ command = 3
    /\ target_rel >= length
    /\ Len(target) - BULK_MARGIN > target_rel
    /\ length > Len(target) - target_rel

\* C14: a SourceCopy is executed as a copy only from a position in
\* [0, source_size), a TargetCopy only from a position in [0, target write
\* position); a delta that moves the cursor outside is not executed as a copy.
C14_BackReferenceSeeksStayInBounds ==
    /\ [][ (NextIsSourceCopy /\ pc' = "loop")
           => /\ 0 <= source_rel + NextDelta
              /\ source_rel + NextDelta < header.source_size ]_vars
    /\ [][ (NextIsTargetCopy /\ pc' = "loop")
           => /\ 0 <= target_rel + NextDelta
              /\ target_rel + NextDelta < state_target.position ]_vars

\* C15: every instruction executed without raising advances the target write
\* position by exactly its decoded length, also when the stream copied from has
\* fewer bytes left.
C15_InstructionAppendsItsLength ==
    [][ (InLoop /\ Decoded.ok /\ pc' = "loop")
        => /\ state_target'.position = state_target.position + LengthOf(Decoded.value)
           /\ Len(target') = Len(target) + LengthOf(Decoded.value) ]_vars

\* C16: at every point of _patch the target cursor's position is the number of
\* bytes in the target and its checksum is the CRC-32 of the target's contents.
C16_TargetCursorTracksTarget ==
    /\ state_target.position = Len(target)
    /\ state_target.checksum = crc32(target, ZERO32)

\* C16's case: instructions, a TargetCopy the last of them, wrote bytes, the
\* padding completed the target with zeros, and the loops are over.
C16_Witness ==
    /\ pc = "verify_source"
    /\ command = 3
    /\ Len(target) >= 3
    /\ target[1] # 0
    /\ target[Len(target)] = 0
    /\ Len(target) = header.target_size

\* C17: dis on a patch whose first 4 bytes are not "BPS1" raises
\* InvalidFormatError and prints no instruction line.
C17_DisRejectsBadMagic ==
    (dis_pc \notin {"idle", "start"} /\ Len(patch) >= 4 /\ SubSeq(patch, 1, 4) # MAGIC) =>
        /\ dis_pc = "raised"
        /\ dis_error.type = "InvalidFormatError"
        /\ dis_out = <<>>

\* C18: SourceCopy leaves the sequential source cursor (position and checksum) as
\* it was, SourceRead leaves the source back-reference cursor where it was and
\* advances the sequential cursor by the bytes it copied, and a TargetCopy changes
\* the target checksum by folding in exactly the bytes it wrote.
C18_SourceCursorsAreDisjoint ==
    /\ [][ (InLoop /\ Decoded.ok /\ CommandOf(Decoded.value) = 2)
           => state_source' = state_source ]_vars
    /\ [][ (InLoop /\ Decoded.ok /\ CommandOf(Decoded.value) = 0)
           => /\ source_rel' = source_rel
              /\ state_source'.position
                   = state_source.position + (Len(target') - Len(target)) ]_vars
    /\ [][ (InLoop /\ Decoded.ok /\ CommandOf(Decoded.value) = 3)
           => /\ state_source' = state_source
              /\ state_target'
                   = Fold(state_target, SubSeq(target', Len(target) + 1, Len(target'))) ]_vars

\* C18's case: after SourceRead(3) and a SourceCopy of 2 bytes from offset 0, the
\* sequential cursor stands at 3 with the checksum of the 3 bytes read, the
\* back-reference cursor at 2.
C18_Witness ==
    /\ pc = "loop"
    /\ command = 2
    /\ state_source.position = 3
    /\ state_source.checksum = crc32(SubSeq(source, 1, 3), ZERO32)
    /\ source_rel = 2
    /\ Len(target) = 5

\* C19: the kind of every instruction _patch or dis decodes is 0, 1, 2 or 3, so the
\* "Invalid command" branch is never taken: the only InvalidFormatError _patch
\* raises is the magic's, and dis raises none.
C19_InvalidCommandUnreachable ==
    /\ (InLoop /\ Decoded.ok) => CommandOf(Decoded.value) \in {0, 1, 2, 3}
    /\ (DisInLoop /\ _decode_number(patch, dis_reader.position).ok)
          => CommandOf(_decode_number(patch, dis_reader.position).value) \in {0, 1, 2, 3}
    /\ \A i \in 1..Len(dis_out) : dis_out[i].kind \in {0, 1, 2, 3}
    /\ command \in {-1, 0, 1, 2, 3}
    /\ error.type = "InvalidFormatError" => error.line = 144
    /\ dis_error.type # "InvalidFormatError"

\* C19's case: dis and _patch both went through a patch with a SourceRead and a
\* SourceCopy whose length word has bit 2 set, without an error.
C19_Witness ==
    /\ Returned
    /\ dis_pc = "done"
    /\ \E i, j \in 1..Len(dis_out) :
          /\ dis_out[i].kind = 0
          /\ dis_out[j].kind = 2
          /\ dis_out[j].length = 2
    /\ error.type = "none"
    /\ dis_error.type = "none"

=============================================================================
